---- MODULE Spec2Model ----
(***************************************************************************)
(* Generated widget classes of SwiftyKvLang (KvToPyClass samples): the      *)
(* constructor (__init__), the subscriptions it registers, the property and *)
(* event dispatch that runs the registered callbacks, and the teardown      *)
(* (__del__ over self._bindings).                                           *)
(***************************************************************************)
EXTENDS Integers, Sequences, FiniteSets, TLC

(* ---------------------------------------------------------------------- *)
(* Bounds                                                                  *)
(* ---------------------------------------------------------------------- *)
\* source property values range over 0..MaxNum
MaxNum == 1
\* number of property changes and teardown invocations in one behaviour
MaxSteps == 2
\* number of teardown invocations on one instance
MaxTeardowns == 2
\* number of unbind calls that fail in one behaviour, unless a whole pass fails
MaxFail == 1
\* number of widgets in a catalogue
MaxWidgets == 3

(* ---------------------------------------------------------------------- *)
(* Values                                                                  *)
(* ---------------------------------------------------------------------- *)
Num(n) == [ty |-> "num", s |-> "", t |-> <<n>>]
Tup(t) == [ty |-> "tup", s |-> "", t |-> t]
Str(s) == [ty |-> "str", s |-> s, t |-> <<>>]
Obj(name) == [ty |-> "obj", s |-> name, t |-> <<>>]
None == [ty |-> "none", s |-> "", t |-> <<>>]

NumVals == 0..MaxNum
StrNames == <<"v0", "v1", "v2", "v3">>

\* the type of each observed source property
TypeOf(prop) ==
    CASE prop \in {"x", "y", "right", "top", "center_x", "center_y"} -> "num"
      [] prop \in {"pos", "size", "center"} -> "pair"
      [] prop = "bg_color" -> "color"
      [] OTHER -> "str"

ValuesOf(prop) ==
    CASE TypeOf(prop) = "num" -> {Num(n) : n \in NumVals}
      [] TypeOf(prop) = "pair" -> {Tup(<<a, a>>) : a \in NumVals}
      [] TypeOf(prop) = "color" -> {Tup(<<a, a, a, 1>>) : a \in NumVals}
      [] OTHER -> {Str(StrNames[n + 1]) : n \in NumVals}

DefaultOf(prop) ==
    CASE TypeOf(prop) = "num" -> Num(0)
      [] TypeOf(prop) = "pair" -> Tup(<<0, 0>>)
      [] TypeOf(prop) = "color" -> Tup(<<0, 0, 0, 1>>)
      [] OTHER -> Str("v0")

(* ---------------------------------------------------------------------- *)
(* Expressions of the generated code                                       *)
(* ---------------------------------------------------------------------- *)
\* a literal
Lit(v) == [form |-> "lit", deps |-> <<>>, n |-> 0, d |-> v]
\* owner.prop
Path(o, p) == [form |-> "path", deps |-> << <<o, p>> >>, n |-> 0, d |-> None]
\* ((owner.p1 + n), (owner.p2 + n))
Offset(o, p1, p2, n) ==
    [form |-> "offset", deps |-> << <<o, p1>>, <<o, p2>> >>, n |-> n, d |-> None]
\* [owner.p1, owner.p2, ...]
ListOf(o, ps) ==
    [form |-> "list", deps |-> [i \in 1..Len(ps) |-> <<o, ps[i]>>], n |-> 0, d |-> None]
\* owner.prop if hasattr(owner, "prop") else d
Cond(o, p, d) == [form |-> "cond", deps |-> << <<o, p>> >>, n |-> 0, d |-> d]
\* a string literal whose text is the property path owner.prop
Quoted(o, p, text) == [form |-> "quoted", deps |-> << <<o, p>> >>, n |-> 0, d |-> Str(text)]
\* the lambda's parameters
ValueArg == [form |-> "value", deps |-> <<>>, n |-> 0, d |-> None]
InstanceArg == [form |-> "instance", deps |-> <<>>, n |-> 0, d |-> None]
\* str(value)
StrOfValue == [form |-> "strvalue", deps |-> <<>>, n |-> 0, d |-> None]

Range(f) == {f[i] : i \in DOMAIN f}

\* the (owner, property) pairs an expression reads
Deps(e) == Range(e.deps)

\* an expression that contains a property-path reference
HasPathRef(e) == e.deps # <<>>

\* the owner a name denotes inside a callback: `instance` is the dispatcher
Resolve(o, instance) == IF o = "instance" THEN instance ELSE o

Read(pv, o, p, instance) ==
    LET k == <<Resolve(o, instance), p>>
    IN  IF k \in DOMAIN pv THEN pv[k] ELSE None

\* the value of expression e with the lambda parameters (instance, value)
\* on the current source values pv
Eval(e, instance, value, pv) ==
    CASE e.form = "lit" -> e.d
      [] e.form = "quoted" -> e.d
      [] e.form = "path" -> Read(pv, e.deps[1][1], e.deps[1][2], instance)
      [] e.form = "offset" ->
            Tup(<<Read(pv, e.deps[1][1], e.deps[1][2], instance).t[1] + e.n,
                  Read(pv, e.deps[2][1], e.deps[2][2], instance).t[1] + e.n>>)
      [] e.form = "list" ->
            Tup([i \in 1..Len(e.deps) |->
                    Read(pv, e.deps[i][1], e.deps[i][2], instance).t[1]])
      [] e.form = "cond" ->
            IF <<Resolve(e.deps[1][1], instance), e.deps[1][2]>> \in DOMAIN pv
            THEN Read(pv, e.deps[1][1], e.deps[1][2], instance)
            ELSE e.d
      [] e.form = "value" -> value
      [] e.form = "instance" -> Obj(instance)
      [] e.form = "strvalue" -> value
      [] OTHER -> None

(* ---------------------------------------------------------------------- *)
(* Statements of the generated constructors                                *)
(* ---------------------------------------------------------------------- *)
\* app = App.get_running_app()
GetApp == [op |-> "app"]
\* self._bindings = []
InitBindings == [op |-> "bindings"]
\* name=literal in an initializer call
Arg(name, e) == [name |-> name, e |-> e]
\* id = Kind(args)
New(id, kind, args) == [op |-> "new", id |-> id, kind |-> kind, args |-> args]
\* obj.prop = e
SetP(obj, prop, e) == [op |-> "set", obj |-> obj, prop |-> prop, e |-> e]
\* callbacks: obj.setter(prop), lambda ...: setattr(obj, prop, e), and handlers
Setter(obj, prop) == [k |-> "setattr", obj |-> obj, prop |-> prop, e |-> ValueArg]
SetAttr(obj, prop, e) == [k |-> "setattr", obj |-> obj, prop |-> prop, e |-> e]
\* lambda instance: owner.method()
Call(owner, method) == [k |-> "call", obj |-> owner, prop |-> method, e |-> Lit(None)]
\* def _on_x_handler(self, instance): owner.method()
MethodCall(owner, method) == [k |-> "mcall", obj |-> owner, prop |-> method, e |-> Lit(None)]
Echo(text) == [k |-> "echo", obj |-> text, prop |-> "", e |-> Lit(None)]
\* owner.bind(prop=cb), cb being the callback object named cb with behaviour act
BindP(owner, prop, cb, act) ==
    [op |-> "bind", owner |-> owner, prop |-> prop, cb |-> cb, act |-> act]
\* self._bindings.append((owner, prop, token))
AppendBinding(owner, prop, token) ==
    [op |-> "append", owner |-> owner, prop |-> prop, token |-> token]
\* parent.add_widget(child)
AddWidget(parent, child) == [op |-> "add_widget", parent |-> parent, child |-> child]
\* self.canvas[.group].add(instr); id = "" for an instruction built in place
CanvasAdd(group, id, kind, args) ==
    [op |-> "canvas_add", group |-> group, id |-> id, kind |-> kind, args |-> args]
\* self.ids.name = obj
IdsSet(name, obj) == [op |-> "ids", name |-> name, obj |-> obj]

\* the value EventDispatcher.bind returns, kept by `_callback_0 = x.bind(...)`
BindResult == "None"

S(text) == Lit(Str(text))

(* ---------------------------------------------------------------------- *)
(* The generated classes                                                   *)
(* ---------------------------------------------------------------------- *)
output_binding_MyWidget ==
    [hasDel |-> FALSE, ops |-> <<
        New("", "Label", <<Arg("text", Quoted("app", "some_prop", "app.some_prop")),
                           Arg("font_size", S("20.0"))>>),
        AddWidget("self", ""),
        New("", "Button", <<Arg("text", S("Click Me"))>>),
        AddWidget("self", "")
    >>]

output_binding2_MyWidget ==
    [hasDel |-> FALSE, ops |-> <<
        GetApp,
        SetP("self", "text_value", Path("app", "some_prop")),
        BindP("app", "some_prop", "self.setter(text_value)", Setter("self", "text_value"))
    >>]

output_binding2_AnotherWidget ==
    [hasDel |-> FALSE, ops |-> <<
        GetApp,
        SetP("self", "text", Path("app", "title")),
        SetP("self", "font_size", S("20.0")),
        BindP("app", "title", "self.setter(text)", Setter("self", "text")),
        BindP("app", "title", "lambda@21", SetAttr("widget", "text", StrOfValue))
    >>]

test_binding_MyWidget ==
    [hasDel |-> TRUE, ops |-> <<
        InitBindings,
        GetApp,
        New("label_7145D272", "Label", <<Arg("font_size", S("20.0"))>>),
        SetP("label_7145D272", "text", Path("app", "some_prop")),
        BindP("app", "some_prop", "label_7145D272.setter(text)",
              Setter("label_7145D272", "text")),
        AddWidget("self", "label_7145D272"),
        New("button_32B27BC4", "Button", <<Arg("text", S("Click Me"))>>),
        BindP("button_32B27BC4", "on_press", "lambda@18", Call("app", "handle_click")),
        AddWidget("self", "button_32B27BC4"),
        AppendBinding("button_32B27BC4", "on_press", BindResult)
    >>]

EllipsePos(o) == Offset(o, "center_x", "center_y", -20)

\* the center_y callback assigns the triggering value instead of the expression
test_binding_ellipse_TestBinding_ValueOnly ==
    [hasDel |-> TRUE, ops |-> <<
        InitBindings,
        New("_canvas_ellipse_81F886DC", "Ellipse", <<Arg("size", S("(40.0, 40.0)"))>>),
        CanvasAdd("canvas", "_canvas_ellipse_81F886DC", "Ellipse", <<>>),
        SetP("_canvas_ellipse_81F886DC", "pos", EllipsePos("self")),
        BindP("self", "center_x", "_callback_1",
              SetAttr("_canvas_ellipse_81F886DC", "pos", EllipsePos("instance"))),
        BindP("self", "center_y", "_callback_2",
              SetAttr("_canvas_ellipse_81F886DC", "pos", ValueArg)),
        AppendBinding("self", "center_x", "_callback_1"),
        AppendBinding("self", "center_y", "_callback_2")
    >>]

test_binding_ellipse_TestBinding ==
    [hasDel |-> TRUE, ops |-> <<
        InitBindings,
        New("_canvas_ellipse_81F886DC", "Ellipse", <<Arg("size", S("(40.0, 40.0)"))>>),
        CanvasAdd("canvas", "_canvas_ellipse_81F886DC", "Ellipse", <<>>),
        SetP("_canvas_ellipse_81F886DC", "pos", EllipsePos("self")),
        BindP("self", "center_x", "_callback_1",
              SetAttr("_canvas_ellipse_81F886DC", "pos", EllipsePos("instance"))),
        BindP("self", "center_y", "_callback_2",
              SetAttr("_canvas_ellipse_81F886DC", "pos", EllipsePos("instance"))),
        AppendBinding("self", "center_x", "_callback_1"),
        AppendBinding("self", "center_y", "_callback_2")
    >>]

LinePoints(o) == ListOf(o, <<"x", "y", "right", "top">>)

\* self.canvas.before.add(...) and its subscriptions (test_canvas.py:12-20)
test_canvas_MyCanvasWidget_before ==
    <<
        CanvasAdd("canvas.before", "", "Color", <<Arg("rgba", S("(0.2, 0.2, 0.2, 1.0)"))>>),
        New("_canvas_rectangle_504605F6", "Rectangle", <<>>),
        CanvasAdd("canvas.before", "_canvas_rectangle_504605F6", "Rectangle", <<>>),
        SetP("_canvas_rectangle_504605F6", "pos", Path("self", "pos")),
        BindP("self", "pos", "_callback_1",
              SetAttr("_canvas_rectangle_504605F6", "pos", ValueArg)),
        SetP("_canvas_rectangle_504605F6", "size", Path("self", "size")),
        BindP("self", "size", "_callback_2",
              SetAttr("_canvas_rectangle_504605F6", "size", ValueArg))
    >>

\* the main group with the subscription of the line on x registered before
\* that of the ellipse
test_canvas_MyCanvasWidget_main_LineFirst ==
    <<
        CanvasAdd("canvas", "", "Color", <<Arg("rgb", S("(1.0, 0.0, 0.0)"))>>),
        New("_canvas_ellipse_916FF6CA", "Ellipse", <<Arg("size", S("(100.0, 100.0)"))>>),
        CanvasAdd("canvas", "_canvas_ellipse_916FF6CA", "Ellipse", <<>>),
        SetP("_canvas_ellipse_916FF6CA", "pos", Offset("self", "x", "y", 50)),
        BindP("self", "x", "_callback_5",
              SetAttr("_canvas_line_61118867", "points", LinePoints("instance"))),
        BindP("self", "y", "_callback_4",
              SetAttr("_canvas_ellipse_916FF6CA", "pos", Offset("instance", "x", "y", 50))),
        CanvasAdd("canvas", "", "Color", <<Arg("rgba", S("(0.0, 1.0, 0.0, 0.5)"))>>),
        New("_canvas_line_61118867", "Line", <<Arg("width", S("2.0"))>>),
        CanvasAdd("canvas", "_canvas_line_61118867", "Line", <<>>),
        SetP("_canvas_line_61118867", "points", LinePoints("self")),
        BindP("self", "x", "_callback_3",
              SetAttr("_canvas_ellipse_916FF6CA", "pos", Offset("instance", "x", "y", 50))),
        BindP("self", "y", "_callback_6",
              SetAttr("_canvas_line_61118867", "points", LinePoints("instance"))),
        BindP("self", "right", "_callback_7",
              SetAttr("_canvas_line_61118867", "points", LinePoints("instance"))),
        BindP("self", "top", "_callback_8",
              SetAttr("_canvas_line_61118867", "points", LinePoints("instance")))
    >>

\* self.canvas.add(...) and its subscriptions (test_canvas.py:21-40)
test_canvas_MyCanvasWidget_main ==
    <<
        CanvasAdd("canvas", "", "Color", <<Arg("rgb", S("(1.0, 0.0, 0.0)"))>>),
        New("_canvas_ellipse_916FF6CA", "Ellipse", <<Arg("size", S("(100.0, 100.0)"))>>),
        CanvasAdd("canvas", "_canvas_ellipse_916FF6CA", "Ellipse", <<>>),
        SetP("_canvas_ellipse_916FF6CA", "pos", Offset("self", "x", "y", 50)),
        BindP("self", "x", "_callback_3",
              SetAttr("_canvas_ellipse_916FF6CA", "pos", Offset("instance", "x", "y", 50))),
        BindP("self", "y", "_callback_4",
              SetAttr("_canvas_ellipse_916FF6CA", "pos", Offset("instance", "x", "y", 50))),
        CanvasAdd("canvas", "", "Color", <<Arg("rgba", S("(0.0, 1.0, 0.0, 0.5)"))>>),
        New("_canvas_line_61118867", "Line", <<Arg("width", S("2.0"))>>),
        CanvasAdd("canvas", "_canvas_line_61118867", "Line", <<>>),
        SetP("_canvas_line_61118867", "points", LinePoints("self")),
        BindP("self", "x", "_callback_5",
              SetAttr("_canvas_line_61118867", "points", LinePoints("instance"))),
        BindP("self", "y", "_callback_6",
              SetAttr("_canvas_line_61118867", "points", LinePoints("instance"))),
        BindP("self", "right", "_callback_7",
              SetAttr("_canvas_line_61118867", "points", LinePoints("instance"))),
        BindP("self", "top", "_callback_8",
              SetAttr("_canvas_line_61118867", "points", LinePoints("instance")))
    >>

\* the closing group without its PopMatrix
test_canvas_MyCanvasWidget_after_NoPop ==
    <<
        CanvasAdd("canvas.after", "", "PushMatrix", <<>>),
        New("_canvas_rotate_C98B4A6C", "Rotate", <<Arg("angle", S("45.0"))>>),
        CanvasAdd("canvas.after", "_canvas_rotate_C98B4A6C", "Rotate", <<>>),
        SetP("_canvas_rotate_C98B4A6C", "origin", Path("self", "center")),
        BindP("self", "center", "_callback_9",
              SetAttr("_canvas_rotate_C98B4A6C", "origin", ValueArg)),
        CanvasAdd("canvas.after", "", "Color", <<Arg("rgb", S("(0.0, 0.0, 1.0)"))>>),
        New("_canvas_rectangle_FF8B70BE", "Rectangle", <<Arg("size", S("(50.0, 50.0)"))>>),
        CanvasAdd("canvas.after", "_canvas_rectangle_FF8B70BE", "Rectangle", <<>>),
        SetP("_canvas_rectangle_FF8B70BE", "pos", Offset("self", "center_x", "center_y", -25)),
        BindP("self", "center_x", "_callback_10",
              SetAttr("_canvas_rectangle_FF8B70BE", "pos",
                      Offset("instance", "center_x", "center_y", -25))),
        BindP("self", "center_y", "_callback_11",
              SetAttr("_canvas_rectangle_FF8B70BE", "pos",
                      Offset("instance", "center_x", "center_y", -25)))
    >>

\* self.canvas.after.add(...) and its subscriptions (test_canvas.py:41-55)
test_canvas_MyCanvasWidget_after ==
    <<
        CanvasAdd("canvas.after", "", "PushMatrix", <<>>),
        New("_canvas_rotate_C98B4A6C", "Rotate", <<Arg("angle", S("45.0"))>>),
        CanvasAdd("canvas.after", "_canvas_rotate_C98B4A6C", "Rotate", <<>>),
        SetP("_canvas_rotate_C98B4A6C", "origin", Path("self", "center")),
        BindP("self", "center", "_callback_9",
              SetAttr("_canvas_rotate_C98B4A6C", "origin", ValueArg)),
        CanvasAdd("canvas.after", "", "Color", <<Arg("rgb", S("(0.0, 0.0, 1.0)"))>>),
        New("_canvas_rectangle_FF8B70BE", "Rectangle", <<Arg("size", S("(50.0, 50.0)"))>>),
        CanvasAdd("canvas.after", "_canvas_rectangle_FF8B70BE", "Rectangle", <<>>),
        SetP("_canvas_rectangle_FF8B70BE", "pos", Offset("self", "center_x", "center_y", -25)),
        BindP("self", "center_x", "_callback_10",
              SetAttr("_canvas_rectangle_FF8B70BE", "pos",
                      Offset("instance", "center_x", "center_y", -25))),
        BindP("self", "center_y", "_callback_11",
              SetAttr("_canvas_rectangle_FF8B70BE", "pos",
                      Offset("instance", "center_x", "center_y", -25))),
        CanvasAdd("canvas.after", "", "PopMatrix", <<>>)
    >>

\* self._bindings.append(...) x 11 (test_canvas.py:56-66)
test_canvas_MyCanvasWidget_records ==
    <<
        AppendBinding("self", "pos", "_callback_1"),
        AppendBinding("self", "size", "_callback_2"),
        AppendBinding("self", "x", "_callback_3"),
        AppendBinding("self", "y", "_callback_4"),
        AppendBinding("self", "x", "_callback_5"),
        AppendBinding("self", "y", "_callback_6"),
        AppendBinding("self", "right", "_callback_7"),
        AppendBinding("self", "top", "_callback_8"),
        AppendBinding("self", "center", "_callback_9"),
        AppendBinding("self", "center_x", "_callback_10"),
        AppendBinding("self", "center_y", "_callback_11")
    >>

test_canvas_MyCanvasWidget ==
    [hasDel |-> TRUE,
     ops |-> <<InitBindings>> \o test_canvas_MyCanvasWidget_before
                \o test_canvas_MyCanvasWidget_main
                \o test_canvas_MyCanvasWidget_after
                \o test_canvas_MyCanvasWidget_records]

BgColor == Cond("app", "bg_color", Tup(<<1, 1, 1, 1>>))

\* the colour part whose callback assigns the observed app.bg_color itself
test_canvas_MyDrawingWidget_color_WritesApp ==
    <<
        InitBindings,
        GetApp,
        New("_canvas_color_A29BE994", "Color", <<>>),
        CanvasAdd("canvas", "_canvas_color_A29BE994", "Color", <<>>),
        SetP("_canvas_color_A29BE994", "rgba", BgColor),
        BindP("app", "bg_color", "_callback_1", SetAttr("app", "bg_color", BgColor))
    >>

\* self._bindings = [] ... app.bind(bg_color=_callback_1) (test_canvas.py:82-88)
test_canvas_MyDrawingWidget_color ==
    <<
        InitBindings,
        GetApp,
        New("_canvas_color_A29BE994", "Color", <<>>),
        CanvasAdd("canvas", "_canvas_color_A29BE994", "Color", <<>>),
        SetP("_canvas_color_A29BE994", "rgba", BgColor),
        BindP("app", "bg_color", "_callback_1",
              SetAttr("_canvas_color_A29BE994", "rgba", BgColor))
    >>

\* the rectangle, the ellipse and the records (test_canvas.py:89-109)
test_canvas_MyDrawingWidget_shapes ==
    <<
        New("_canvas_rectangle_FDE5AC3C", "Rectangle", <<>>),
        CanvasAdd("canvas", "_canvas_rectangle_FDE5AC3C", "Rectangle", <<>>),
        SetP("_canvas_rectangle_FDE5AC3C", "pos", Path("self", "pos")),
        BindP("self", "pos", "_callback_2",
              SetAttr("_canvas_rectangle_FDE5AC3C", "pos", ValueArg)),
        SetP("_canvas_rectangle_FDE5AC3C", "size", Path("self", "size")),
        BindP("self", "size", "_callback_3",
              SetAttr("_canvas_rectangle_FDE5AC3C", "size", ValueArg)),
        CanvasAdd("canvas", "", "Color", <<Arg("rgb", S("(1.0, 1.0, 0.0)"))>>),
        New("_canvas_ellipse_5EEADB71", "Ellipse", <<Arg("size", S("(40.0, 40.0)"))>>),
        CanvasAdd("canvas", "_canvas_ellipse_5EEADB71", "Ellipse", <<>>),
        SetP("_canvas_ellipse_5EEADB71", "pos", EllipsePos("self")),
        BindP("self", "center_x", "_callback_4",
              SetAttr("_canvas_ellipse_5EEADB71", "pos", EllipsePos("instance"))),
        BindP("self", "center_y", "_callback_5",
              SetAttr("_canvas_ellipse_5EEADB71", "pos", EllipsePos("instance"))),
        AppendBinding("app", "bg_color", "_callback_1"),
        AppendBinding("self", "pos", "_callback_2"),
        AppendBinding("self", "size", "_callback_3"),
        AppendBinding("self", "center_x", "_callback_4"),
        AppendBinding("self", "center_y", "_callback_5")
    >>

test_canvas_MyDrawingWidget ==
    [hasDel |-> TRUE,
     ops |-> test_canvas_MyDrawingWidget_color \o test_canvas_MyDrawingWidget_shapes]

test_comment_canvas_TestCanvas ==
    [hasDel |-> TRUE, ops |-> <<
        InitBindings,
        New("color_B6BF02D5", "Color", <<Arg("rgb", S("(1.0, 0.0, 0.0)"))>>),
        AddWidget("self", "color_B6BF02D5"),
        New("rectangle_F3A37B9D", "Rectangle", <<>>),
        SetP("rectangle_F3A37B9D", "pos", Path("self", "pos")),
        BindP("self", "pos", "rectangle_F3A37B9D.setter(pos)",
              Setter("rectangle_F3A37B9D", "pos")),
        SetP("rectangle_F3A37B9D", "size", Path("self", "size")),
        BindP("self", "size", "rectangle_F3A37B9D.setter(size)",
              Setter("rectangle_F3A37B9D", "size")),
        AddWidget("self", "rectangle_F3A37B9D")
    >>]

test_complex_bindings_ComplexWidget ==
    [hasDel |-> TRUE, ops |-> <<
        InitBindings,
        GetApp,
        SetP("self", "orientation", S("vertical")),
        New("label_E601E7C3", "Label", <<Arg("font_size", S("24.0"))>>),
        SetP("label_E601E7C3", "text", Path("app", "title")),
        BindP("app", "title", "label_E601E7C3.setter(text)", Setter("label_E601E7C3", "text")),
        AddWidget("self", "label_E601E7C3"),
        New("box_5736D8A4", "BoxLayout", <<>>),
        New("button_66B05D98", "Button", <<Arg("text", S("Save"))>>),
        BindP("button_66B05D98", "on_press", "_callback_0", Call("self", "save_data")),
        AddWidget("box_5736D8A4", "button_66B05D98"),
        New("button_54910EAA", "Button", <<Arg("text", S("Load"))>>),
        BindP("button_54910EAA", "on_press", "_callback_1", Call("self", "load_data")),
        AddWidget("box_5736D8A4", "button_54910EAA"),
        New("button_573825D5", "Button", <<Arg("text", S("Clear"))>>),
        BindP("button_573825D5", "on_release", "_callback_2", Call("self", "clear_all")),
        AddWidget("box_5736D8A4", "button_573825D5"),
        AddWidget("self", "box_5736D8A4"),
        New("my_input", "TextInput", <<>>),
        SetP("my_input", "text", Path("app", "current_text")),
        BindP("app", "current_text", "my_input.setter(text)", Setter("my_input", "text")),
        IdsSet("my_input", "my_input"),
        BindP("my_input", "on_text", "_callback_3", Call("self", "on_text_changed")),
        AddWidget("self", "my_input"),
        AppendBinding("button_66B05D98", "on_press", "_callback_0"),
        AppendBinding("button_54910EAA", "on_press", "_callback_1"),
        AppendBinding("button_573825D5", "on_release", "_callback_2"),
        AppendBinding("my_input", "on_text", "_callback_3")
    >>]

\* self._bindings = [] ... self.add_widget(label_63CA62FF) (test_event_binding.py:11-16)
test_event_binding_UserProfile_head ==
    <<
        InitBindings,
        SetP("self", "orientation", S("vertical")),
        SetP("self", "spacing", S("10.0")),
        SetP("self", "padding", S("20.0")),
        New("label_63CA62FF", "Label",
            <<Arg("text", S("User Profile")), Arg("font_size", S("24.0")),
              Arg("size_hint_y", S("None")), Arg("height", S("40.0"))>>),
        AddWidget("self", "label_63CA62FF")
    >>

\* the name row attached to self before its own children are attached to it
test_event_binding_UserProfile_name_BoxFirst ==
    <<
        New("box_2C88C0FF", "BoxLayout",
            <<Arg("orientation", S("horizontal")), Arg("spacing", S("10.0"))>>),
        AddWidget("self", "box_2C88C0FF"),
        New("label_F9F01180", "Label",
            <<Arg("text", S("Name:")), Arg("size_hint_x", S("0.3"))>>),
        AddWidget("box_2C88C0FF", "label_F9F01180"),
        New("name_input", "TextInput", <<Arg("multiline", S("False"))>>),
        IdsSet("name_input", "name_input"),
        AddWidget("box_2C88C0FF", "name_input")
    >>

\* the name row (test_event_binding.py:17-23)
test_event_binding_UserProfile_name ==
    <<
        New("box_2C88C0FF", "BoxLayout",
            <<Arg("orientation", S("horizontal")), Arg("spacing", S("10.0"))>>),
        New("label_F9F01180", "Label",
            <<Arg("text", S("Name:")), Arg("size_hint_x", S("0.3"))>>),
        AddWidget("box_2C88C0FF", "label_F9F01180"),
        New("name_input", "TextInput", <<Arg("multiline", S("False"))>>),
        IdsSet("name_input", "name_input"),
        AddWidget("box_2C88C0FF", "name_input"),
        AddWidget("self", "box_2C88C0FF")
    >>

\* the email row whose box got the identifier of the box of the name row
test_event_binding_UserProfile_email_SameId ==
    <<
        New("box_2C88C0FF", "BoxLayout",
            <<Arg("orientation", S("horizontal")), Arg("spacing", S("10.0"))>>),
        New("label_8BCAC544", "Label",
            <<Arg("text", S("Email:")), Arg("size_hint_x", S("0.3"))>>),
        AddWidget("box_2C88C0FF", "label_8BCAC544"),
        New("email_input", "TextInput", <<Arg("multiline", S("False"))>>),
        IdsSet("email_input", "email_input"),
        AddWidget("box_2C88C0FF", "email_input"),
        AddWidget("self", "box_2C88C0FF")
    >>

\* the email row (test_event_binding.py:24-30)
test_event_binding_UserProfile_email ==
    <<
        New("box_4AA757E4", "BoxLayout",
            <<Arg("orientation", S("horizontal")), Arg("spacing", S("10.0"))>>),
        New("label_8BCAC544", "Label",
            <<Arg("text", S("Email:")), Arg("size_hint_x", S("0.3"))>>),
        AddWidget("box_4AA757E4", "label_8BCAC544"),
        New("email_input", "TextInput", <<Arg("multiline", S("False"))>>),
        IdsSet("email_input", "email_input"),
        AddWidget("box_4AA757E4", "email_input"),
        AddWidget("self", "box_4AA757E4")
    >>

\* the save button and its record (test_event_binding.py:31-35)
test_event_binding_UserProfile_button ==
    <<
        New("mybutton_555FAFB4", "MyButton", <<Arg("text", S("Save Profile"))>>),
        BindP("mybutton_555FAFB4", "on_press", "_callback_0", Call("self", "save_profile")),
        AddWidget("self", "mybutton_555FAFB4"),
        AppendBinding("mybutton_555FAFB4", "on_press", "_callback_0")
    >>

test_event_binding_UserProfile ==
    [hasDel |-> TRUE,
     ops |-> test_event_binding_UserProfile_head
                \o test_event_binding_UserProfile_name
                \o test_event_binding_UserProfile_email
                \o test_event_binding_UserProfile_button]

test_simple_canvas_SimpleCanvas ==
    [hasDel |-> TRUE, ops |-> <<
        InitBindings,
        CanvasAdd("canvas", "", "Color", <<Arg("rgb", S("(1.0, 0.0, 0.0)"))>>),
        New("_canvas_rectangle_00A310AD", "Rectangle", <<>>),
        CanvasAdd("canvas", "_canvas_rectangle_00A310AD", "Rectangle", <<>>),
        SetP("_canvas_rectangle_00A310AD", "pos", Path("self", "pos")),
        BindP("self", "pos", "_callback_1",
              SetAttr("_canvas_rectangle_00A310AD", "pos", InstanceArg)),
        SetP("_canvas_rectangle_00A310AD", "size", Path("self", "size")),
        BindP("self", "size", "_callback_2",
              SetAttr("_canvas_rectangle_00A310AD", "size", InstanceArg)),
        AppendBinding("self", "pos", "_callback_1"),
        AppendBinding("self", "size", "_callback_2")
    >>]

test_complete_CompleteExample ==
    [hasDel |-> FALSE, ops |-> <<
        SetP("self", "orientation", S("vertical")),
        SetP("self", "spacing", S("10.0")),
        BindP("self", "on_touch_down", "self._on_touch_down_handler", Echo("Layout touched!")),
        New("widget_BBFC248F", "Label",
            <<Arg("text", S("Event Handler Demo")), Arg("font_size", S("24.0"))>>),
        AddWidget("self", "widget_BBFC248F"),
        New("widget_71BB4D47", "Button", <<Arg("text", S("Button 1"))>>),
        BindP("widget_71BB4D47", "on_press", "lambda@17", Call("app", "handle_button1")),
        AddWidget("self", "widget_71BB4D47"),
        New("widget_92DF895F", "Button", <<Arg("text", S("Button 2"))>>),
        BindP("widget_92DF895F", "on_release", "lambda@20", Echo("Button 2 released!")),
        AddWidget("self", "widget_92DF895F"),
        New("my_switch", "Switch", <<>>),
        IdsSet("my_switch", "my_switch"),
        BindP("my_switch", "on_active", "lambda@24", Call("app", "switch_changed")),
        AddWidget("self", "my_switch")
    >>]

test_complex_handler_ComplexButton ==
    [hasDel |-> FALSE, ops |-> <<
        SetP("self", "text", S("Test")),
        BindP("self", "on_press", "self._on_press_handler",
              MethodCall("app", "on_button_press")),
        BindP("self", "on_release", "self._on_release_handler", Echo("Released!"))
    >>]

test_handler_MyButton ==
    [hasDel |-> FALSE, ops |-> <<
        SetP("self", "text", S("Press me")),
        BindP("self", "on_press", "self._on_press_handler", Echo("Button pressed!"))
    >>]

ClassNames ==
    {"output_binding.MyWidget", "output_binding2.MyWidget",
     "output_binding2.AnotherWidget", "test_binding.MyWidget",
     "test_binding_ellipse.TestBinding", "test_canvas.MyCanvasWidget",
     "test_canvas.MyDrawingWidget", "test_comment_canvas.TestCanvas",
     "test_complex_bindings.ComplexWidget", "test_event_binding.UserProfile",
     "test_simple_canvas.SimpleCanvas", "test_complete.CompleteExample",
     "test_complex_handler.ComplexButton", "test_handler.MyButton"}

ClassOf(c) ==
    CASE c = "output_binding.MyWidget" -> output_binding_MyWidget
      [] c = "output_binding2.MyWidget" -> output_binding2_MyWidget
      [] c = "output_binding2.AnotherWidget" -> output_binding2_AnotherWidget
      [] c = "test_binding.MyWidget" -> test_binding_MyWidget
      [] c = "test_binding_ellipse.TestBinding" -> test_binding_ellipse_TestBinding
      [] c = "test_canvas.MyCanvasWidget" -> test_canvas_MyCanvasWidget
      [] c = "test_canvas.MyDrawingWidget" -> test_canvas_MyDrawingWidget
      [] c = "test_comment_canvas.TestCanvas" -> test_comment_canvas_TestCanvas
      [] c = "test_complex_bindings.ComplexWidget" -> test_complex_bindings_ComplexWidget
      [] c = "test_event_binding.UserProfile" -> test_event_binding_UserProfile
      [] c = "test_simple_canvas.SimpleCanvas" -> test_simple_canvas_SimpleCanvas
      [] c = "test_complete.CompleteExample" -> test_complete_CompleteExample
      [] c = "test_complex_handler.ComplexButton" -> test_complex_handler_ComplexButton
      [] OTHER -> test_handler_MyButton

(* ---------------------------------------------------------------------- *)
(* State                                                                   *)
(* ---------------------------------------------------------------------- *)
VARIABLES
    cls,          \* the generated class the instance belongs to
    phase,        \* "new" before __init__, "live" after it, "torn" after __del__
    props,        \* current values of the observed source properties
    targets,      \* values the generated code assigned: <<obj, prop>> -> value
    widgets,      \* widgets and instructions created, with their initializer arguments
    scope,        \* names bound in the constructor
    subs,         \* bind calls executed by the constructor, in order
    observers,    \* <<owner, prop>> -> callbacks currently subscribed, in order
    bindings,     \* self._bindings
    attached,     \* add_widget calls, in order, each with the place of the child in widgets
    canvas,       \* canvas add calls, in order
    ids,          \* names registered in self.ids
    attempts,     \* unbind calls made by teardown passes: [pass, idx, ok]
    teardowns,    \* number of __del__ invocations so far
    raised,       \* a __del__ invocation let an exception escape
    output,      \* texts written to the output
    lastRun,      \* callbacks run by the most recent dispatch, in order
    unbound,      \* names read while bound to nothing in scope
    steps,        \* number of property changes and teardown invocations so far
    catalogue,    \* extract_widget_info: widgets, name -> WidgetInfo
    hierarchy,    \* extract_widget_info: widget -> list of its parents
    stage,        \* extract_widget_info: "none", "extracted", "built"
    query,        \* the widget_name last passed to get_all_properties
    all_props,    \* what get_all_properties returned for it
    call,         \* the running get_parents call: root, widget_name, visited, parents
    items,        \* extract_widget_info: the widgets dictionary in insertion order
    swift_code    \* the registry entries written by generate_swift_file, in order

instVars == <<cls, phase, props, targets, widgets, scope, subs, observers, bindings,
              attached, canvas, ids, attempts, teardowns, raised, output, lastRun,
              unbound, steps>>

catVars == <<catalogue, hierarchy, stage, query, all_props, call, items, swift_code>>

\* no get_parents call is running
NoCall == [root |-> "", widget_name |-> "", visited |-> {}, parents |-> <<>>]

vars == <<instVars, catVars>>

\* no catalogue has been extracted
NoCatalogue ==
    /\ catalogue = <<>>
    /\ hierarchy = <<>>
    /\ stage = "none"
    /\ query = ""
    /\ all_props = <<>>
    /\ call = NoCall
    /\ swift_code = <<>>
    /\ items = <<>>

EventNames == {"on_press", "on_release", "on_text", "on_touch_down", "on_active"}

OpsOf(c) == ClassOf(c).ops

BindOps(c) == SelectSeq(OpsOf(c), LAMBDA o : o.op = "bind")
SetOps(c) == SelectSeq(OpsOf(c), LAMBDA o : o.op = "set")

\* the source properties a class observes or reads
SourceKeys(c) ==
    {<<o.owner, o.prop>> : o \in {b \in Range(BindOps(c)) : b.prop \notin EventNames}}
    \cup UNION {Deps(o.e) : o \in Range(SetOps(c))}

Put(f, k, v) == IF k \in DOMAIN f THEN [f EXCEPT ![k] = v] ELSE f @@ (k :> v)

\* owner.bind(prop=cb): cb is appended to the observers of (owner, prop)
Bind(obs, owner, prop, cb) ==
    LET k == <<owner, prop>>
    IN  IF k \in DOMAIN obs THEN [obs EXCEPT ![k] = Append(@, cb)]
        ELSE obs @@ (k :> <<cb>>)

RECURSIVE RemoveFirst(_, _)
RemoveFirst(q, id) ==
    IF q = <<>> THEN <<>>
    ELSE IF Head(q).id = id THEN Tail(q)
    ELSE <<Head(q)>> \o RemoveFirst(Tail(q), id)

\* owner.unbind(prop=token): the callback that is token is removed
Unbind(obs, owner, prop, token) ==
    LET k == <<owner, prop>>
    IN  IF k \in DOMAIN obs THEN [obs EXCEPT ![k] = RemoveFirst(@, token)]
        ELSE obs

EmptyState ==
    [targets |-> <<>>, widgets |-> <<>>, scope |-> {"self"}, subs |-> <<>>,
     observers |-> <<>>, bindings |-> <<>>, attached |-> <<>>, canvas |-> <<>>,
     ids |-> {}, unbound |-> {}]

\* the names a constructor statement reads
StmtReads(o) ==
    CASE o.op = "set" -> {o.obj} \cup {d[1] : d \in Deps(o.e)}
      [] o.op = "bind" -> {o.owner}
      [] o.op = "append" -> {o.owner}
      [] o.op = "add_widget" -> {o.parent, o.child} \ {""}
      [] o.op = "canvas_add" -> {"self", o.id} \ {""}
      [] o.op = "ids" -> {"self", o.obj}
      [] OTHER -> {}

\* where in the construction order the object passed to add_widget was built:
\* a child built in place ("") is the object built last; 0 when never built
LastBuilt(built, id) ==
    IF id = "" THEN Len(built)
    ELSE LET at == {j \in DOMAIN built : built[j].id = id}
         IN  IF at = {} THEN 0 ELSE CHOOSE j \in at : \A m \in at : m <= j

\* one statement of a constructor
Step(st0, o, pv) ==
  LET st == [st0 EXCEPT !.unbound = @ \cup (StmtReads(o) \ st0.scope)]
  IN
    CASE o.op = "app" -> [st EXCEPT !.scope = @ \cup {"app"}]
      [] o.op = "bindings" -> [st EXCEPT !.bindings = <<>>]
      [] o.op = "new" ->
            [st EXCEPT !.widgets = Append(@, [id |-> o.id, kind |-> o.kind, args |-> o.args]),
                       !.scope = IF o.id = "" THEN @ ELSE @ \cup {o.id}]
      [] o.op = "set" ->
            [st EXCEPT !.targets = Put(@, <<o.obj, o.prop>>, Eval(o.e, "self", None, pv))]
      [] o.op = "bind" ->
            [st EXCEPT !.subs = Append(@, [owner |-> o.owner, prop |-> o.prop, cb |-> o.cb]),
                       !.observers = Bind(@, o.owner, o.prop, [id |-> o.cb, act |-> o.act])]
      [] o.op = "append" ->
            [st EXCEPT !.bindings =
                Append(@, [owner |-> o.owner, prop |-> o.prop, token |-> o.token])]
      [] o.op = "add_widget" -> [st EXCEPT !.attached =
                    Append(@, [parent |-> o.parent, child |-> o.child,
                               at |-> LastBuilt(st.widgets, o.child)])]
      [] o.op = "canvas_add" ->
            [st EXCEPT !.canvas = Append(@, [group |-> o.group, id |-> o.id, kind |-> o.kind]),
                       !.widgets = IF o.id = ""
                                   THEN Append(@, [id |-> "", kind |-> o.kind, args |-> o.args])
                                   ELSE @]
      [] o.op = "ids" -> [st EXCEPT !.ids = @ \cup {o.name}]
      [] OTHER -> st

RECURSIVE Exec(_, _, _, _, _)
\* the statements ops[lo..hi] of a constructor, run in order: the first half,
\* then the second half on the state the first half left
Exec(ops, lo, hi, st, pv) ==
    IF lo > hi THEN st
    ELSE IF lo = hi THEN Step(st, ops[lo], pv)
    ELSE LET mid == (lo + hi) \div 2
             half == Exec(ops, lo, mid, st, pv)
         IN  IF "self" \in half.scope THEN Exec(ops, mid + 1, hi, half, pv) ELSE half

\* one callback, run by the dispatch of (instance, value)
RunCallback(cb, instance, value, tg, pv, sc) ==
    IF cb.act.k = "setattr" /\ cb.act.obj \in sc
    THEN Put(tg, <<cb.act.obj, cb.act.prop>>, Eval(cb.act.e, instance, value, pv))
    ELSE tg

RECURSIVE Dispatch(_, _, _, _, _, _)
\* the callbacks q run in their registration order
Dispatch(q, instance, value, tg, pv, sc) ==
    IF q = <<>> THEN tg
    ELSE Dispatch(Tail(q), instance, value,
                  RunCallback(Head(q), instance, value, tg, pv, sc), pv, sc)

Subscribed(obs, k) == IF k \in DOMAIN obs THEN obs[k] ELSE <<>>

\* the names a callback reads when it runs
CallbackReads(cb, instance) ==
    CASE cb.act.k = "setattr" ->
            {cb.act.obj} \cup {Resolve(d[1], instance) : d \in Deps(cb.act.e)}
      [] cb.act.k \in {"call", "mcall"} -> {cb.act.obj}
      [] OTHER -> {}

\* the names bound where a callback runs: a lambda sees the locals of __init__,
\* a handler method sees self only
CallbackScope(cb, sc) == IF cb.act.k = "mcall" THEN {"self"} ELSE sc

\* the names the callbacks q read without finding them bound
UnboundIn(q, instance, sc) ==
    UNION {CallbackReads(q[i], instance) \ CallbackScope(q[i], sc) : i \in DOMAIN q}

IdsOf(q) == [i \in 1..Len(q) |-> q[i].id]

EchoedBy(q) == {q[i].act.obj : i \in {j \in 1..Len(q) : q[j].act.k = "echo"}}

RECURSIVE DelLoopAbort(_, _, _, _, _, _)
\* the loop without try/except: the first unbind that raises ends the pass
DelLoopAbort(i, recs, obs, log, fail, pass) ==
    IF i > Len(recs) THEN [observers |-> obs, attempts |-> log, raised |-> FALSE]
    ELSE IF i \in fail
         THEN [observers |-> obs,
               attempts |-> Append(log, [pass |-> pass, idx |-> i, ok |-> FALSE]),
               raised |-> TRUE]
         ELSE DelLoopAbort(i + 1, recs,
                           Unbind(obs, recs[i].owner, recs[i].prop, recs[i].token),
                           Append(log, [pass |-> pass, idx |-> i, ok |-> TRUE]), fail, pass)

RECURSIVE DelLoop(_, _, _, _, _, _)
\* for (obj, prop, callback) in self._bindings: try: obj.unbind(...) except: pass
\* fail is the set of records whose unbind raises
DelLoop(i, recs, obs, log, fail, pass) ==
    IF i > Len(recs) THEN [observers |-> obs, attempts |-> log, raised |-> FALSE]
    ELSE LET ok == i \notin fail
             obs2 == IF ok THEN Unbind(obs, recs[i].owner, recs[i].prop, recs[i].token)
                     ELSE obs
         IN  DelLoop(i + 1, recs, obs2,
                     Append(log, [pass |-> pass, idx |-> i, ok |-> ok]), fail, pass)

(* ---------------------------------------------------------------------- *)
(* Operations                                                              *)
(* ---------------------------------------------------------------------- *)
Init ==
    /\ cls \in ClassNames
    /\ phase = "new"
    /\ props = [k \in SourceKeys(cls) |-> DefaultOf(k[2])]
    /\ targets = <<>>
    /\ widgets = <<>>
    /\ scope = {"self"}
    /\ subs = <<>>
    /\ observers = <<>>
    /\ bindings = <<>>
    /\ attached = <<>>
    /\ canvas = <<>>
    /\ ids = {}
    /\ attempts = <<>>
    /\ teardowns = 0
    /\ raised = FALSE
    /\ output = {}
    /\ lastRun = <<>>
    /\ unbound = {}
    /\ steps = 0
    /\ NoCatalogue

\* __init__
Construct ==
    /\ phase = "new"
    /\ LET st == Exec(OpsOf(cls), 1, Len(OpsOf(cls)), EmptyState, props)
       IN  /\ targets' = st.targets
           /\ widgets' = st.widgets
           /\ scope' = st.scope
           /\ subs' = st.subs
           /\ observers' = st.observers
           /\ bindings' = st.bindings
           /\ attached' = st.attached
           /\ canvas' = st.canvas
           /\ ids' = st.ids
           /\ unbound' = st.unbound
    /\ phase' = "live"
    /\ UNCHANGED <<cls, props, attempts, teardowns, raised, output, lastRun, steps>>
    /\ UNCHANGED catVars

\* a source property changes: its observers run before the change returns
SetProperty(k, v) ==
    /\ steps < MaxSteps
    /\ k \in DOMAIN props
    /\ k[1] = "self" => phase # "new"
    /\ v \in ValuesOf(k[2])
    /\ v # props[k]
    /\ props' = [props EXCEPT ![k] = v]
    /\ targets' = Dispatch(Subscribed(observers, k), k[1], v, targets, props', scope)
    /\ lastRun' = IdsOf(Subscribed(observers, k))
    /\ unbound' = unbound \cup UnboundIn(Subscribed(observers, k), k[1], scope)
    /\ steps' = steps + 1
    /\ UNCHANGED <<cls, phase, widgets, scope, subs, observers, bindings, attached,
                   canvas, ids, attempts, teardowns, raised, output>>
    /\ UNCHANGED catVars

\* an event is dispatched: its handlers run
FireEvent(k) ==
    /\ phase # "new"
    /\ k \in DOMAIN observers
    /\ k[2] \in EventNames
    /\ lastRun' = IdsOf(observers[k])
    /\ output' = output \cup EchoedBy(observers[k])
    /\ unbound' = unbound \cup UnboundIn(observers[k], k[1], scope)
    /\ UNCHANGED <<cls, phase, props, targets, widgets, scope, subs, observers, bindings,
                   attached, canvas, ids, attempts, teardowns, raised, steps>>
    /\ UNCHANGED catVars

\* the number of unbind calls that have failed so far
Failed == Cardinality({i \in DOMAIN attempts : ~attempts[i].ok})

RECURSIVE SubsetsUpTo(_, _)
\* the subsets of recs with at most b elements
SubsetsUpTo(recs, b) ==
    IF b <= 0 THEN {{}}
    ELSE LET prev == SubsetsUpTo(recs, b - 1)
         IN  prev \cup {f \cup {x} : f \in prev, x \in recs}

\* the records whose unbind raises in one pass: a few of them, or every one
FailSets(n) == SubsetsUpTo(1..n, MaxFail - Failed) \cup {1..n}

\* __del__
Teardown ==
    /\ ClassOf(cls).hasDel
    /\ phase # "new"
    /\ teardowns < MaxTeardowns
    /\ steps < MaxSteps
    /\ \E fail \in FailSets(Len(bindings)) :
          LET r == DelLoop(1, bindings, observers, attempts, fail, teardowns + 1)
          IN  /\ observers' = r.observers
              /\ attempts' = r.attempts
              /\ raised' = (raised \/ r.raised)
    /\ teardowns' = teardowns + 1
    /\ phase' = "torn"
    /\ steps' = steps + 1
    /\ UNCHANGED <<cls, props, targets, widgets, scope, subs, bindings, attached, canvas,
                   ids, output, lastRun, unbound>>
    /\ UNCHANGED catVars

Next ==
    \/ Construct
    \/ \E k \in DOMAIN props : \E v \in ValuesOf(k[2]) : SetProperty(k, v)
    \/ \E k \in DOMAIN observers : FireEvent(k)
    \/ Teardown

Spec == Init /\ [][Next]_vars

\* the same program when the collector finalizes every instance whose class
\* has a finalizer: __del__ is not put off forever
FairSpec == Init /\ [][Next]_vars /\ WF_vars(Teardown)

(* ---------------------------------------------------------------------- *)
(* extract_widget_info.py: the widget catalogue                            *)
(* ---------------------------------------------------------------------- *)
\* class names found under kivy/uix, in the order in which the bound admits them
WidgetNames == <<"Widget", "ButtonBehavior", "Button", "ToggleButton", "Spinner">>

\* the widgets of a catalogue
Names == {WidgetNames[i] : i \in 1..MaxWidgets}

\* a parent class that is not a widget of the catalogue
External == "EventDispatcher"

\* property names and property types found by extract_class_info
PropNames == {"text"}
PropTypes == {"StringProperty", "NumericProperty"}

\* the dictionaries property name -> property type
PropertyMaps == UNION {[D -> PropTypes] : D \in SUBSET PropNames}

\* WidgetInfo(name, parent, properties), keyed by name in the widgets dictionary
WidgetInfo == [parent : Names \cup {External}, properties : PropertyMaps]

RECURSIVE get_parents(_, _, _)
\* get_parents(widget_name, visited) of build_inheritance_hierarchy
get_parents(ws, widget_name, visited) ==
    IF widget_name \in visited THEN <<>>
    ELSE IF widget_name \notin DOMAIN ws THEN <<>>
    ELSE <<ws[widget_name].parent>>
            \o get_parents(ws, ws[widget_name].parent, visited \cup {widget_name})

\* for widget_name in widgets: hierarchy[widget_name] = get_parents(widget_name)
build_inheritance_hierarchy(ws) ==
    [widget_name \in DOMAIN ws |-> get_parents(ws, widget_name, {})]

\* dict.update
Update(d, e) ==
    [k \in DOMAIN d \cup DOMAIN e |-> IF k \in DOMAIN e THEN e[k] ELSE d[k]]

\* reversed(list)
Reversed(l) == [i \in 1..Len(l) |-> l[Len(l) + 1 - i]]

RECURSIVE UpdateFrom(_, _, _, _)
\* for parent in order[i..]: if parent in widgets: all_props.update(...)
UpdateFrom(order, i, ws, acc) ==
    IF i > Len(order) THEN acc
    ELSE UpdateFrom(order, i + 1, ws,
                    IF order[i] \in DOMAIN ws
                    THEN Update(acc, ws[order[i]].properties)
                    ELSE acc)

\* the parents applied nearest-first, so that the farthest definer wins
get_all_properties_NearestFirst(widget_name, ws, hier) ==
    LET inherited == IF widget_name \in DOMAIN hier
                     THEN UpdateFrom(hier[widget_name], 1, ws, <<>>)
                     ELSE <<>>
    IN  IF widget_name \in DOMAIN ws
        THEN Update(inherited, ws[widget_name].properties)
        ELSE inherited

get_all_properties(widget_name, ws, hier) ==
    LET inherited == IF widget_name \in DOMAIN hier
                     THEN UpdateFrom(Reversed(hier[widget_name]), 1, ws, <<>>)
                     ELSE <<>>
    IN  IF widget_name \in DOMAIN ws
        THEN Update(inherited, ws[widget_name].properties)
        ELSE inherited

\* str < str on the names that occur: the names in ascending order
Ascending ==
    <<"Button", "ButtonBehavior", "Spinner", "ToggleButton", "Widget", "size", "text">>

Rank(name) == CHOOSE i \in 1..Len(Ascending) : Ascending[i] = name

RECURSIVE Insert(_, _)
\* x put into the ascending list l, after the entries that do not follow it
Insert(x, l) ==
    IF l = <<>> THEN <<x>>
    ELSE IF Rank(Head(l).name) <= Rank(x.name)
         THEN <<Head(l)>> \o Insert(x, Tail(l))
         ELSE <<x>> \o l

RECURSIVE Sorted(_)
\* sorted(d.items()) for items keyed by name
Sorted(l) ==
    IF l = <<>> THEN <<>>
    ELSE Insert(l[Len(l)], Sorted(SubSeq(l, 1, Len(l) - 1)))

\* the order in which extract_class_info finds the properties of a class
PropOrder == <<"text", "size">>

\* a properties dictionary as the list of its items, in insertion order
PropItems(properties) ==
    LET found == SelectSeq(PropOrder, LAMBDA n : n \in DOMAIN properties)
    IN  [i \in DOMAIN found |-> [name |-> found[i], type |-> properties[found[i]]]]

\* the widgets dictionary as the list of its items, inserted in the order of
\* WidgetNames
ItemsOf(ws) ==
    LET found == SelectSeq(WidgetNames, LAMBDA n : n \in DOMAIN ws)
    IN  [i \in DOMAIN found |->
            [name |-> found[i], parent |-> ws[found[i]].parent,
             properties |-> PropItems(ws[found[i]].properties)]]

\* the widgets that are written even without properties
AlwaysEmitted ==
    {"Widget", "Layout", "FloatLayout", "BoxLayout", "GridLayout", "AnchorLayout",
     "RelativeLayout", "StackLayout", "PageLayout", "ScatterLayout", "Button", "Label",
     "Image", "TextInput"}

\* parentClass: "<parent>" if widget_info.parent else nil
ParentClass(parent) ==
    IF parent = "" THEN [some |-> FALSE, name |-> ""] ELSE [some |-> TRUE, name |-> parent]

\* generate_swift_file with the widgets written in their insertion order
generate_swift_file_Unsorted(ws, hier) ==
    LET kept == SelectSeq(ws, LAMBDA it :
                    ~(Len(it.properties) = 0 /\ it.name \notin AlwaysEmitted))
    IN  [i \in DOMAIN kept |->
            [widgetName |-> kept[i].name,
             parentClass |-> ParentClass(kept[i].parent),
             directProperties |-> Sorted(kept[i].properties)]]

\* the entries of widgetRegistry that generate_swift_file writes, in text order
generate_swift_file(ws, hier) ==
    LET sorted_widgets == Sorted(ws)
        kept == SelectSeq(sorted_widgets, LAMBDA it :
                    ~(Len(it.properties) = 0 /\ it.name \notin AlwaysEmitted))
    IN  [i \in DOMAIN kept |->
            [widgetName |-> kept[i].name,
             parentClass |-> ParentClass(kept[i].parent),
             directProperties |-> Sorted(kept[i].properties)]]

\* the emitted Swift: private static let widgetRegistry
WidgetRegistry(code) ==
    [n \in {code[i].widgetName : i \in DOMAIN code} |->
        CHOOSE e \in Range(code) : e.widgetName = n]

RECURSIVE collectProperties(_, _, _)
\* the emitted Swift: collectProperties(from:); a call chain longer than any
\* chain of distinct entries goes round a cycle and does not return
collectProperties(registry, widget, depth) ==
    IF widget \notin DOMAIN registry THEN [returns |-> TRUE, properties |-> {}]
    ELSE IF depth = 0 THEN [returns |-> FALSE, properties |-> {}]
    ELSE LET info == registry[widget]
             above == IF info.parentClass.some
                      THEN collectProperties(registry, info.parentClass.name, depth - 1)
                      ELSE [returns |-> TRUE, properties |-> {}]
         IN  [returns |-> above.returns,
              properties |-> Range(info.directProperties) \cup above.properties]

\* the emitted Swift: getAllProperties(for:)
getAllProperties(code, widgetName) ==
    collectProperties(WidgetRegistry(code), widgetName, MaxWidgets + 2)

\* no instance of a generated class exists
NoInstance ==
    /\ cls = ""
    /\ phase = "none"
    /\ props = <<>>
    /\ targets = <<>>
    /\ widgets = <<>>
    /\ scope = {}
    /\ subs = <<>>
    /\ observers = <<>>
    /\ bindings = <<>>
    /\ attached = <<>>
    /\ canvas = <<>>
    /\ ids = {}
    /\ attempts = <<>>
    /\ teardowns = 0
    /\ raised = FALSE
    /\ output = {}
    /\ lastRun = <<>>
    /\ unbound = {}
    /\ steps = 0

\* widgets = process_uix_directory(uix_path): any catalogue over Names
CatInit ==
    /\ NoInstance
    /\ catalogue \in [Names -> WidgetInfo]
    /\ items = ItemsOf(catalogue)
    /\ hierarchy = <<>>
    /\ stage = "extracted"
    /\ query = ""
    /\ all_props = <<>>
    /\ call = NoCall
    /\ swift_code = <<>>

\* hierarchy = build_inheritance_hierarchy(widgets)
BuildHierarchy ==
    /\ stage = "extracted"
    /\ hierarchy' = build_inheritance_hierarchy(catalogue)
    /\ stage' = "built"
    /\ UNCHANGED <<catalogue, query, all_props, call, items, swift_code>>
    /\ UNCHANGED instVars

\* all_props = get_all_properties(name, widgets, hierarchy)
GetAllProperties(name) ==
    /\ stage = "built"
    /\ query' = name
    /\ all_props' = get_all_properties(name, catalogue, hierarchy)
    /\ UNCHANGED <<catalogue, hierarchy, stage, call, items, swift_code>>
    /\ UNCHANGED instVars

\* swift_code = generate_swift_file(widgets, hierarchy)
GenerateSwiftFile ==
    /\ stage = "built"
    /\ swift_code' = generate_swift_file(items, hierarchy)
    /\ stage' = "generated"
    /\ UNCHANGED <<catalogue, hierarchy, query, all_props, call, items>>
    /\ UNCHANGED instVars

CatNext ==
    \/ BuildHierarchy
    \/ \E name \in Names \cup {External} : GetAllProperties(name)
    \/ GenerateSwiftFile

CatSpec == CatInit /\ [][CatNext]_vars

(* generate_swift_file on widgets dictionaries with any insertion order *)

\* the orders in which the names of a dictionary can have been inserted
InsertionOrders(keys) ==
    {order \in [1..Cardinality(keys) -> keys] : Range(order) = keys}

\* the type extract_class_info finds for each property name
TypeFound(name) == IF name = "text" THEN "StringProperty" ELSE "NumericProperty"

\* the properties dictionaries over the names of PropOrder, as item lists in
\* every insertion order
PropertyLists ==
    {<<>>}
    \cup {<<[name |-> a, type |-> TypeFound(a)]>> : a \in Range(PropOrder)}
    \cup UNION {{<<[name |-> a, type |-> TypeFound(a)],
                     [name |-> b, type |-> TypeFound(b)]>> :
                        b \in Range(PropOrder) \ {a}} : a \in Range(PropOrder)}

\* the content of a widgets dictionary: name -> WidgetInfo
DictOf(ws) ==
    [n \in {ws[i].name : i \in DOMAIN ws} |->
        LET it == CHOOSE e \in Range(ws) : e.name = n
        IN  [parent |-> it.parent,
             properties |-> [q \in {it.properties[j].name : j \in DOMAIN it.properties} |->
                                (CHOOSE e \in Range(it.properties) : e.name = q).type]]]

\* widgets as returned by process_uix_directory, with its hierarchy built
GenInit ==
    /\ NoInstance
    /\ \E order \in InsertionOrders(Names) :
       \E info \in [Names -> [parent : {External, WidgetNames[1]},
                              properties : PropertyLists]] :
          items = [i \in DOMAIN order |->
                      [name |-> order[i], parent |-> info[order[i]].parent,
                       properties |-> info[order[i]].properties]]
    /\ catalogue = DictOf(items)
    /\ hierarchy = build_inheritance_hierarchy(catalogue)
    /\ stage = "built"
    /\ query = ""
    /\ all_props = <<>>
    /\ call = NoCall
    /\ swift_code = <<>>

GenNext == GenerateSwiftFile

GenSpec == GenInit /\ [][GenNext]_vars

(* build_inheritance_hierarchy, one get_parents activation at a time *)

\* a chain of distinct widgets has at most MaxWidgets links: a get_parents
\* recursion that gets deeper than this is followed no further
MaxDepth == MaxWidgets + 2

\* widgets = process_uix_directory(uix_path); the hierarchy reads the parent
\* links only, so the widgets carry no properties here
HierInit ==
    /\ NoInstance
    /\ catalogue \in [Names -> [parent : Names \cup {External}, properties : {<<>>}]]
    /\ items = ItemsOf(catalogue)
    /\ hierarchy = <<>>
    /\ stage = "extracted"
    /\ query = ""
    /\ all_props = <<>>
    /\ call = NoCall
    /\ swift_code = <<>>

\* the widgets the for loop has not reached yet
Pending == DOMAIN catalogue \ DOMAIN hierarchy

\* for widget_name in widgets: ... get_parents(widget_name), visited = set();
\* the dictionary is walked in the order of WidgetNames
EnterGetParents ==
    /\ stage = "extracted"
    /\ call = NoCall
    /\ Pending # {}
    /\ LET i == CHOOSE j \in 1..Len(WidgetNames) :
                    /\ WidgetNames[j] \in Pending
                    /\ \A m \in 1..(j - 1) : WidgetNames[m] \notin Pending
       IN  call' = [root |-> WidgetNames[i], widget_name |-> WidgetNames[i],
                    visited |-> {}, parents |-> <<>>]
    /\ UNCHANGED <<catalogue, hierarchy, stage, query, all_props, items, swift_code>>
    /\ UNCHANGED instVars

\* one activation of get_parents that recurses without consulting visited
GetParentsStep_NoVisited ==
    /\ stage = "extracted"
    /\ call # NoCall
    /\ IF call.widget_name \notin DOMAIN catalogue
       THEN /\ hierarchy' = hierarchy @@ (call.root :> call.parents)
            /\ call' = NoCall
       ELSE /\ Len(call.parents) < MaxDepth
            /\ call' = [call EXCEPT
                           !.visited = @ \cup {call.widget_name},
                           !.parents = Append(@, catalogue[call.widget_name].parent),
                           !.widget_name = catalogue[call.widget_name].parent]
            /\ UNCHANGED hierarchy
    /\ UNCHANGED <<catalogue, stage, query, all_props, items, swift_code>>
    /\ UNCHANGED instVars

\* one activation of get_parents: it returns [] (and with it every caller
\* returns its extended list), or it appends widget.parent and recurses
GetParentsStep ==
    /\ stage = "extracted"
    /\ call # NoCall
    /\ IF call.widget_name \in call.visited \/ call.widget_name \notin DOMAIN catalogue
       THEN /\ hierarchy' = hierarchy @@ (call.root :> call.parents)
            /\ call' = NoCall
       ELSE /\ Len(call.parents) < MaxDepth
            /\ call' = [call EXCEPT
                           !.visited = @ \cup {call.widget_name},
                           !.parents = Append(@, catalogue[call.widget_name].parent),
                           !.widget_name = catalogue[call.widget_name].parent]
            /\ UNCHANGED hierarchy
    /\ UNCHANGED <<catalogue, stage, query, all_props, items, swift_code>>
    /\ UNCHANGED instVars

\* return hierarchy
ReturnHierarchy ==
    /\ stage = "extracted"
    /\ call = NoCall
    /\ Pending = {}
    /\ stage' = "built"
    /\ UNCHANGED <<catalogue, hierarchy, query, all_props, call, items, swift_code>>
    /\ UNCHANGED instVars

HierNext == EnterGetParents \/ GetParentsStep \/ ReturnHierarchy

\* the function runs on: no statement of it is put off forever
HierSpec == HierInit /\ [][HierNext]_vars /\ WF_vars(HierNext)

(* ---------------------------------------------------------------------- *)
(* Properties                                                              *)
(* ---------------------------------------------------------------------- *)
\* the unbind calls of teardown pass p, in order
PassAttempts(p) == SelectSeq(attempts, LAMBDA a : a.pass = p)

\* the callbacks subscribed on k that assign obj.prop
Assigning(k, obj, prop) ==
    {i \in DOMAIN observers[k] :
        /\ observers[k][i].act.k = "setattr"
        /\ observers[k][i].act.obj = obj
        /\ observers[k][i].act.prop = prop}

\* the (owner, property) pairs on which some subscribed callback assigns obj.prop
AssigningKeys(obj, prop) == {k \in DOMAIN observers : Assigning(k, obj, prop) # {}}

\* the reactive assignments of the class: obj.prop = e with e reading source properties
ReactiveAssignments == {o \in Range(SetOps(cls)) : HasPathRef(o.e)}

\* C1: for every generated class the number of bind calls of the constructor
\* equals the number of unbind calls of its teardown, and each subscribed
\* (owner, property) pair appears exactly once among the records released.
C1_SubscribeTeardownSymmetry ==
    (phase = "torn" /\ teardowns = 1) =>
        /\ Len(subs) = Len(PassAttempts(1))
        /\ \A i \in DOMAIN subs :
              Cardinality({j \in DOMAIN bindings :
                              /\ bindings[j].owner = subs[i].owner
                              /\ bindings[j].prop = subs[i].prop}) = 1

\* C2: a reactive assignment with dependency set D has exactly |D| subscriptions,
\* one per dependency, and whenever a callback has run the target holds the value
\* of the full expression on the current source values.
C2_ReactiveCompleteness ==
    phase = "live" =>
        \A o \in ReactiveAssignments :
            /\ AssigningKeys(o.obj, o.prop) = Deps(o.e)
            /\ \A k \in Deps(o.e) : Cardinality(Assigning(k, o.obj, o.prop)) = 1
            /\ targets[<<o.obj, o.prop>>] = Eval(o.e, "self", None, props)

\* C3: a second teardown does not raise and does not try to release a record
\* that an earlier teardown already released.
C3_IdempotentTeardown ==
    /\ ~raised
    /\ \A i, j \in DOMAIN attempts :
          (attempts[i].pass < attempts[j].pass /\ attempts[i].ok)
              => attempts[i].idx # attempts[j].idx

\* C4: every teardown pass visits every record of self._bindings exactly once,
\* in order, whichever unbind calls fail and however many of them fail.
C4_EveryRecordVisitedOnce ==
    \A p \in 1..teardowns :
        /\ Len(PassAttempts(p)) = Len(bindings)
        /\ \A i \in 1..Len(bindings) : PassAttempts(p)[i].idx = i

\* a pass in which an unbind failed and a later record was still released
C4_Witness ==
    \E i, j \in DOMAIN attempts :
        /\ attempts[i].pass = attempts[j].pass
        /\ attempts[i].idx < attempts[j].idx
        /\ ~attempts[i].ok
        /\ attempts[j].ok

\* the warning a teardown with failed releases is to surface
TeardownWarning == "TeardownReleaseFailure"

\* C5: when unbind calls fail, the teardown goes on, lets no failure escape
\* and surfaces an aggregate warning.
C5_AggregateWarning ==
    (\E i \in DOMAIN attempts : ~attempts[i].ok) =>
        /\ ~raised
        /\ C4_EveryRecordVisitedOnce
        /\ TeardownWarning \in output

\* C6: after a teardown in which no unbind failed, no callback the constructor
\* registered is still subscribed on any owner.
C6_AllReleasedAfterTeardown ==
    (teardowns >= 1 /\ \A i \in DOMAIN attempts : attempts[i].ok) =>
        \A k \in DOMAIN observers : observers[k] = <<>>

\* the labels of the class whose text expression is app.title
TitleLabels == {o \in Range(SetOps(cls)) : o.prop = "text" /\ o.e = Path("app", "title")}

\* C7: a label whose text is app.title has exactly one subscription on
\* (app, "title"), the immediate assignment of the current app.title, and one
\* record for (app, "title") for the teardown to release.
C7_AppTitleLabel ==
    (phase # "new" /\ TitleLabels # {}) =>
        /\ Cardinality({i \in DOMAIN subs :
                           subs[i].owner = "app" /\ subs[i].prop = "title"}) = 1
        /\ \A o \in TitleLabels : <<o.obj, "text">> \in DOMAIN targets
        /\ Cardinality({j \in DOMAIN bindings :
                           bindings[j].owner = "app" /\ bindings[j].prop = "title"}) = 1

\* the shapes of the class whose position is ((self.center_x - 20), (self.center_y - 20))
CenteredShapes == {o \in Range(SetOps(cls)) : o.prop = "pos" /\ o.e = EllipsePos("self")}

\* C8: from the end of construction until teardown the shape has exactly two
\* subscriptions, on (self, center_x) and (self, center_y), and its pos is
\* ((center_x - 20), (center_y - 20)) after any changes of center_x and center_y.
C8_EllipsePosFollowsCenter ==
    phase = "live" =>
        \A o \in CenteredShapes :
            /\ AssigningKeys(o.obj, "pos") = {<<"self", "center_x">>, <<"self", "center_y">>}
            /\ Cardinality(Assigning(<<"self", "center_x">>, o.obj, "pos")) = 1
            /\ Cardinality(Assigning(<<"self", "center_y">>, o.obj, "pos")) = 1
            /\ targets[<<o.obj, "pos">>] =
                  Tup(<<props[<<"self", "center_x">>].t[1] - 20,
                        props[<<"self", "center_y">>].t[1] - 20>>)

\* both center_x and center_y have changed since construction
C8_Witness ==
    /\ phase = "live"
    /\ cls = "test_binding_ellipse.TestBinding"
    /\ lastRun # <<>>
    /\ props[<<"self", "center_x">>] = Num(1)
    /\ props[<<"self", "center_y">>] = Num(1)
    /\ targets[<<"_canvas_ellipse_81F886DC", "pos">>] = Tup(<<-19, -19>>)

\* C9: no expression with a property-path reference is passed as an initializer
\* argument, and each such assignment has its immediate assignment and a
\* subscription.
C9_PathRefNeverStatic ==
    phase = "live" =>
        /\ \A i \in DOMAIN widgets : \A j \in DOMAIN widgets[i].args :
              ~HasPathRef(widgets[i].args[j].e)
        /\ \A o \in ReactiveAssignments :
              /\ <<o.obj, o.prop>> \in DOMAIN targets
              /\ AssigningKeys(o.obj, o.prop) # {}

\* C10: every event binding is subscribed and has its record
\* (owner, event name, callback) in self._bindings.
C10_EventBindingsRecorded ==
    phase = "live" =>
        \A i \in DOMAIN subs :
            subs[i].prop \in EventNames =>
                /\ \E n \in DOMAIN observers[<<subs[i].owner, subs[i].prop>>] :
                      observers[<<subs[i].owner, subs[i].prop>>][n].id = subs[i].cb
                /\ \E j \in DOMAIN bindings :
                      bindings[j] = [owner |-> subs[i].owner, prop |-> subs[i].prop,
                                     token |-> subs[i].cb]

\* C11: every owner name read by the constructor, by a reactive callback or by an
\* event handler of a unit is bound where it is read: self, a widget constructed
\* before, or the app resolved by App.get_running_app().
C11_OwnersBound ==
    phase # "new" =>
        /\ unbound = {}
        /\ \A k \in DOMAIN observers : UnboundIn(observers[k], k[1], scope) = {}

\* the instruction groups of a widget
GroupNames == {"canvas.before", "canvas", "canvas.after"}

RECURSIVE OpenPushes(_, _, _)
\* pushes minus pops among the first i instructions added to group g
OpenPushes(added, i, g) ==
    IF i = 0 THEN 0
    ELSE OpenPushes(added, i - 1, g)
         + (IF added[i].group = g /\ added[i].kind = "PushMatrix" THEN 1
            ELSE IF added[i].group = g /\ added[i].kind = "PopMatrix" THEN -1
            ELSE 0)

\* C12: in every instruction group the pushes added equal the pops added, and no
\* prefix of what was added to the group has more pops than pushes.
C12_TransformBalance ==
    phase # "new" =>
        \A g \in GroupNames :
            /\ OpenPushes(canvas, Len(canvas), g) = 0
            /\ \A i \in 0..Len(canvas) : OpenPushes(canvas, i, g) >= 0

\* a constructed unit with a push and, later in the same group, its pop
C12_Witness ==
    /\ phase = "live"
    /\ \E i, j \in DOMAIN canvas :
          /\ i < j
          /\ canvas[i].kind = "PushMatrix"
          /\ canvas[j].kind = "PopMatrix"
          /\ canvas[i].group = canvas[j].group
          /\ \E m \in DOMAIN canvas : i < m /\ m < j /\ canvas[m].kind = "Rotate"

\* the callbacks the constructor registered on (owner, property) k, in the order
\* of its bind calls
RegisteredOn(k) ==
    LET on == SelectSeq(subs, LAMBDA r : r.owner = k[1] /\ r.prop = k[2])
    IN  [i \in DOMAIN on |-> on[i].cb]

\* what a change of x of a live MyCanvasWidget has done when it returns
XChangeOfMyCanvasWidget ==
    /\ lastRun' = <<"_callback_3", "_callback_5">>
    /\ targets'[<<"_canvas_ellipse_916FF6CA", "pos">>] =
          Eval(Offset("self", "x", "y", 50), "self", None, props')
    /\ targets'[<<"_canvas_line_61118867", "points">>] =
          Eval(LinePoints("self"), "self", None, props')

\* C13: a change of a source property of a live unit runs, before it returns, all
\* callbacks subscribed on that (owner, property) pair in the order in which the
\* constructor registered them; for MyCanvasWidget a change of x runs _callback_3
\* before _callback_5 and leaves the ellipse pos and the line points up to date.
C13_RegistrationOrder ==
    [][(phase = "live" /\ props' # props) =>
          \E k \in DOMAIN props :
              /\ props'[k] # props[k]
              /\ lastRun' = RegisteredOn(k)
              /\ (cls = "test_canvas.MyCanvasWidget" /\ k = <<"self", "x">>)
                    => XChangeOfMyCanvasWidget]_vars

\* x of a live MyCanvasWidget has changed and both of its callbacks have run
C13_Witness ==
    /\ phase = "live"
    /\ cls = "test_canvas.MyCanvasWidget"
    /\ props[<<"self", "x">>] = Num(1)
    /\ lastRun = <<"_callback_3", "_callback_5">>
    /\ targets[<<"_canvas_ellipse_916FF6CA", "pos">>] = Tup(<<51, 50>>)

\* C14: every constructed instance has its teardown run eventually (the behaviour
\* is followed until the teardown or until its step budget is used up).
C14_TeardownEventually ==
    (phase = "live") ~> (teardowns >= 1 \/ steps >= MaxSteps)

\* the positions in the construction order at which a node named id was built
BuiltAt(id) == {i \in DOMAIN widgets : widgets[i].id = id}

\* C15: within a unit no two nodes (widgets or retained canvas instructions, with
\* explicit or generated names) have the same identifier, and a name registered
\* in self.ids names one node.
C15_UniqueIdentifiers ==
    phase # "new" =>
        /\ \A i, j \in DOMAIN widgets :
              (i # j /\ widgets[i].id # "") => widgets[i].id # widgets[j].id
        /\ \A name \in ids : Cardinality(BuiltAt(name)) = 1

\* a constructed unit with two explicit ids and several generated identifiers
C15_Witness ==
    /\ phase = "live"
    /\ ids = {"name_input", "email_input"}
    /\ \E i, j \in DOMAIN widgets :
          /\ widgets[i].id = "box_2C88C0FF"
          /\ widgets[j].id = "box_4AA757E4"
          /\ widgets[i].kind = widgets[j].kind

WrittenKeys ==
    {t \in DOMAIN targets' : t \notin DOMAIN targets \/ targets'[t] # targets[t]}

\* the targets of the reactive assignments that read source property k
GeneratedFor(k) == {<<o.obj, o.prop>> : o \in {r \in ReactiveAssignments : k \in Deps(r.e)}}

\* C17: the generated code never assigns an observed source property:
\* construction and teardown leave every source property as it was, what the
\* constructor and the callbacks assign is never a source property, and the
\* callbacks run by a change of one source property assign only targets that
\* were generated for that property.
C17_SourcesNotWritten ==
    [][/\ WrittenKeys \cap DOMAIN props = {}
       /\ phase' # phase => props' = props
       /\ teardowns' # teardowns => (props' = props /\ targets' = targets)
       /\ props' # props =>
             \E k \in DOMAIN props :
                 /\ props' = [props EXCEPT ![k] = props'[k]]
                 /\ WrittenKeys \subseteq GeneratedFor(k)]_vars

\* app.bg_color has changed and the callback has assigned the colour's rgba
C17_Witness ==
    /\ phase = "live"
    /\ cls = "test_canvas.MyDrawingWidget"
    /\ lastRun = <<"_callback_1">>
    /\ props[<<"app", "bg_color">>] = Tup(<<1, 1, 1, 1>>)
    /\ targets[<<"_canvas_color_A29BE994", "rgba">>] = Tup(<<1, 1, 1, 1>>)

\* lowercase(kind) for the widget and instruction types the units construct
Lower(kind) ==
    CASE kind = "Label" -> "label"
      [] kind = "Button" -> "button"
      [] kind = "BoxLayout" -> "boxlayout"
      [] kind = "TextInput" -> "textinput"
      [] kind = "Switch" -> "switch"
      [] kind = "MyButton" -> "mybutton"
      [] kind = "Color" -> "color"
      [] kind = "Ellipse" -> "ellipse"
      [] kind = "Line" -> "line"
      [] kind = "Rectangle" -> "rectangle"
      [] kind = "Rotate" -> "rotate"
      [] OTHER -> kind

\* the eight-digit uppercase hexadecimal suffixes of the generated identifiers
Hashes ==
    {
     "00A310AD", "2C88C0FF", "32B27BC4", "4AA757E4", "504605F6", "54910EAA",
     "555FAFB4", "5736D8A4", "573825D5", "5EEADB71", "61118867", "63CA62FF",
     "66B05D98", "7145D272", "71BB4D47", "81F886DC", "8BCAC544", "916FF6CA",
     "92DF895F", "A29BE994", "B6BF02D5", "BBFC248F", "C98B4A6C", "E601E7C3",
     "F3A37B9D", "F9F01180", "FDE5AC3C", "FF8B70BE"}

\* C18: every named node without an explicit id is named
\* lowercase(kind) + "_" + eight uppercase hexadecimal digits, kind being the
\* type the node is constructed as.
C18_IdentifierFormat ==
    phase # "new" =>
        \A i \in DOMAIN widgets :
            (widgets[i].id # "" /\ widgets[i].id \notin ids) =>
                \E h \in Hashes : widgets[i].id = Lower(widgets[i].kind) \o "_" \o h

\* C19: every record of self._bindings carries as its third element the callback
\* that was passed to the bind call for the record's owner and property.
C19_RecordHoldsCallback ==
    phase # "new" =>
        \A j \in DOMAIN bindings :
            \E i \in DOMAIN subs :
                /\ subs[i].owner = bindings[j].owner
                /\ subs[i].prop = bindings[j].prop
                /\ subs[i].cb = bindings[j].token

RECURSIVE AncestorAt(_, _)
\* the widget d parent links above w (w itself for d = 0); External once the
\* chain has left the catalogue
AncestorAt(w, d) ==
    IF d = 0 THEN w
    ELSE LET below == AncestorAt(w, d - 1)
         IN  IF below \in DOMAIN catalogue THEN catalogue[below].parent ELSE External

\* the distances from w at which a widget of the catalogue defines property p
DefinersOf(w, p) ==
    {d \in 0..MaxWidgets :
        /\ AncestorAt(w, d) \in DOMAIN catalogue
        /\ p \in DOMAIN catalogue[AncestorAt(w, d)].properties}

\* the least distance among ds
Nearest(ds) == CHOOSE d \in ds : \A e \in ds : d <= e

\* C20: get_all_properties(w) holds, for every property name defined by w or by
\* a widget on w's parent chain, the type given by the nearest definer, and holds
\* no name that no widget on the chain defines.
C20_NearestDefinerWins ==
    (stage = "built" /\ query # "") =>
        \A p \in PropNames :
            IF DefinersOf(query, p) = {}
            THEN p \notin DOMAIN all_props
            ELSE /\ p \in DOMAIN all_props
                 /\ all_props[p] =
                       catalogue[AncestorAt(query, Nearest(DefinersOf(query, p)))].properties[p]

\* a widget that inherits a property which its parent and its grandparent define
\* with different types
C20_Witness ==
    /\ stage = "built"
    /\ query \in DOMAIN catalogue
    /\ \E p \in PropNames :
          /\ DefinersOf(query, p) = {1, 2}
          /\ AncestorAt(query, 2) \notin {query, AncestorAt(query, 1)}
          /\ catalogue[AncestorAt(query, 1)].properties[p]
                # catalogue[AncestorAt(query, 2)].properties[p]
          /\ all_props[p] = catalogue[AncestorAt(query, 1)].properties[p]

\* C21: build_inheritance_hierarchy returns for every widgets map, cyclic parent
\* links included, and what it returns has an entry for every widget of the map.
C21_HierarchyTerminates ==
    <>(/\ stage = "built"
       /\ DOMAIN hierarchy = DOMAIN catalogue
       /\ hierarchy = build_inheritance_hierarchy(catalogue))

\* the hierarchy of a map in which one widget is its own parent and two others
\* are each other's parent has been returned
C21_Witness ==
    /\ stage = "built"
    /\ call = NoCall
    /\ DOMAIN hierarchy = DOMAIN catalogue
    /\ \E a, b, c \in DOMAIN catalogue :
          /\ a # b /\ a # c /\ b # c
          /\ catalogue[a].parent = a
          /\ catalogue[b].parent = c
          /\ catalogue[c].parent = b
          /\ hierarchy[b] = <<c, b>>

\* C22: for every widget w, hierarchy[w] is w's parent chain in nearest-first
\* order, holds each name at most once and does not hold w itself.
C22_ParentChain ==
    stage = "built" =>
        \A w \in DOMAIN hierarchy :
            /\ \A d \in DOMAIN hierarchy[w] : hierarchy[w][d] = AncestorAt(w, d)
            /\ \A i, j \in DOMAIN hierarchy[w] :
                  i # j => hierarchy[w][i] # hierarchy[w][j]
            /\ \A i \in DOMAIN hierarchy[w] : hierarchy[w][i] # w

\* C23: for every widget written to the registry, the emitted getAllProperties
\* returns the same set of property names as get_all_properties on the widgets.
C23_RegistryAgrees ==
    stage = "generated" =>
        \A i \in DOMAIN swift_code :
            LET inSwift == getAllProperties(swift_code, swift_code[i].widgetName)
            IN  /\ inSwift.returns
                /\ {p.name : p \in inSwift.properties}
                      = DOMAIN get_all_properties(swift_code[i].widgetName,
                                                  catalogue, hierarchy)

RECURSIVE AscendingSeq(_)
\* the names of keys in ascending order: the least one, then the others
AscendingSeq(keys) ==
    IF keys = {} THEN <<>>
    ELSE LET least == CHOOSE k \in keys : \A m \in keys : Rank(k) <= Rank(m)
         IN  <<least>> \o AscendingSeq(keys \ {least})

\* the registry entries that the content of a widgets dictionary determines
EntriesOf(ws) ==
    LET kept == {n \in DOMAIN ws : DOMAIN ws[n].properties # {} \/ n \in AlwaysEmitted}
        order == AscendingSeq(kept)
    IN  [i \in DOMAIN order |->
            [widgetName |-> order[i],
             parentClass |-> ParentClass(ws[order[i]].parent),
             directProperties |->
                 LET names == AscendingSeq(DOMAIN ws[order[i]].properties)
                 IN  [j \in DOMAIN names |->
                         [name |-> names[j], type |-> ws[order[i]].properties[names[j]]]]]]

\* C24: what generate_swift_file writes is determined by the content of the
\* widgets dictionary alone, whatever the insertion order of widgets and of
\* properties: widgets come in ascending name order and so do the properties of
\* each widget.
C24_OrderIndependent ==
    stage = "generated" =>
        /\ swift_code = EntriesOf(catalogue)
        /\ \A i, j \in DOMAIN swift_code :
              i < j => Rank(swift_code[i].widgetName) < Rank(swift_code[j].widgetName)
        /\ \A i \in DOMAIN swift_code :
              \A a, b \in DOMAIN swift_code[i].directProperties :
                  a < b => Rank(swift_code[i].directProperties[a].name)
                              < Rank(swift_code[i].directProperties[b].name)

\* the file was written from a dictionary whose widgets were not inserted in
\* ascending order and one of whose widgets had its properties inserted in
\* descending order
C24_Witness ==
    /\ stage = "generated"
    /\ Len(swift_code) >= 2
    /\ \E i, j \in DOMAIN items :
          i < j /\ Rank(items[i].name) > Rank(items[j].name)
    /\ \E i \in DOMAIN items :
          /\ Len(items[i].properties) = 2
          /\ Rank(items[i].properties[1].name) > Rank(items[i].properties[2].name)
          /\ \E m \in DOMAIN swift_code :
                /\ swift_code[m].widgetName = items[i].name
                /\ swift_code[m].directProperties[1] = items[i].properties[2]

====
